---- MODULE Spec2Model ----
(***************************************************************************)
(* Model of sklearn_pandas/categorical_imputer.py: the helper _get_mask    *)
(* and the class CategoricalImputer (__init__, fit, transform).            *)
(*                                                                         *)
(* An array entry is a record [kind, chars]: a Python str is kind "str"    *)
(* with its characters, None is kind "None" and float('nan') is kind       *)
(* "nan".  Arrays are object-dtype one-dimensional arrays (np.ndarray or   *)
(* pd.Series), modelled as sequences of entries.                           *)
(***************************************************************************)
EXTENDS Naturals, Sequences, FiniteSets

\* Longest array handed to fit or transform.
MaxLen == 3

Str(s) == [kind |-> "str", chars |-> s]
None == [kind |-> "None", chars |-> <<>>]
nan == [kind |-> "nan", chars |-> <<>>]
\* The attribute fill_ before any assignment to it (hasattr is false).
NoAttr == [kind |-> "unset", chars |-> <<>>]

\* The str "NaN": default of missing_values, and also a legal data string.
NaNStr == Str(<<"N", "a", "N">>)

\* Entries the arrays are drawn from.
Values == {None, nan, Str(<<>>), Str(<<"a">>), Str(<<"b">>), NaNStr}

\* Every array of at most MaxLen entries.
Arrays == UNION {[1..n -> Values] : n \in 0..MaxLen}

\* Arguments of __init__ that pass its validation.
MissingValues == {NaNStr, None, nan, Str(<<"b">>)}
Strategies == {"constant", "most_frequent"}
TieBreakingStrategies == {"error", "first", "random"}
FillValues == {Str(<<"?">>), Str(<<"a", "b">>)}

VARIABLES
    missing_values,  \* self.missing_values
    strategy,        \* self.strategy
    fill_value,      \* self.fill_value
    tie_breaking,    \* self.tie_breaking
    copy,            \* self.copy
    fill_,           \* self.fill_, NoAttr while the attribute does not exist
    op,              \* the call whose outcome the caller holds: "none", "fit", "transform"
    arg,             \* the caller's array as it was when the call was made
    X,               \* the caller's array after the call
    mask,            \* the local mask of the call
    ret,             \* the array transform returned (<<>> when nothing was returned)
    raised,          \* the exception the call ended with, "none" when it returned
    fitted           \* history: some fit call has returned normally

vars == <<missing_values, strategy, fill_value, tie_breaking, copy, fill_,
          op, arg, X, mask, ret, raised, fitted>>

config == <<missing_values, strategy, fill_value, tie_breaking, copy>>

\* pd.isnull on one entry of an object array.
isnull(e) == e.kind \in {"None", "nan"}

\* _get_mask without its first branch: always the comparison X == value.
_get_mask_eq_only(A, value) == [i \in DOMAIN A |-> A[i] = value]

\* _get_mask(X, value)
_get_mask(A, value) ==
    IF value = NaNStr \/ value.kind = "None" \/ value.kind = "nan"
    THEN [i \in DOMAIN A |-> isnull(A[i])]
    ELSE [i \in DOMAIN A |-> A[i] = value]

\* A[m] for a boolean mask m: the entries where m is true, in order.
RECURSIVE boolean_index(_, _)
boolean_index(A, m) ==
    IF A = <<>> THEN <<>>
    ELSE LET n == Len(A)
             front == boolean_index(SubSeq(A, 1, n - 1), SubSeq(m, 1, n - 1))
         IN  IF m[n] THEN Append(front, A[n]) ELSE front

\* ~mask
invert(m) == [i \in DOMAIN m |-> ~m[i]]

\* Code point of a character.
ord(c) == CASE c = "?" -> 63 [] c = "N" -> 78 [] c = "a" -> 97 [] c = "b" -> 98

\* Python's s < t on str.
str_lt(s, t) ==
    \E k \in 1..Len(t) :
        /\ k <= Len(s) + 1
        /\ \A j \in 1..(k - 1) : s[j] = t[j]
        /\ \/ k = Len(s) + 1
           \/ ord(s[k]) < ord(t[k])

\* The strings of S in ascending order.
RECURSIVE sorted(_)
sorted(S) ==
    IF S = {} THEN <<>>
    ELSE LET least == CHOOSE m \in S : \A o \in S \ {m} : str_lt(m.chars, o.chars)
         IN  <<least>> \o sorted(S \ {least})

\* Number of entries of A equal to v.
value_count(A, v) == Cardinality({i \in DOMAIN A : A[i] = v})

\* The strings of S in the order of their first occurrence in A.
RECURSIVE first_seen(_, _)
first_seen(A, S) ==
    IF A = <<>> THEN <<>>
    ELSE IF Head(A) \in S
    THEN <<Head(A)>> \o first_seen(Tail(A), S \ {Head(A)})
    ELSE first_seen(Tail(A), S)

\* A mode that does not sort: the most frequent values as encountered.
mode_unsorted(A) ==
    LET present == {A[i] : i \in {j \in DOMAIN A : ~isnull(A[j])}}
        top == {v \in present : \A w \in present : value_count(A, w) <= value_count(A, v)}
    IN  first_seen(A, top)

\* pd.Series(A).mode(): null entries dropped, the most frequent values, sorted.
mode(A) ==
    LET present == {A[i] : i \in {j \in DOMAIN A : ~isnull(A[j])}}
        top == {v \in present : \A w \in present : value_count(A, w) <= value_count(A, v)}
    IN  sorted(top)

\* The candidates of fit: modes.
modes_of(A) ==
    IF strategy = "most_frequent"
    THEN mode(boolean_index(A, invert(_get_mask(A, missing_values))))
    ELSE <<fill_value>>

\* random.choice(s) on a str s: every outcome it can have.
random_choice(s) == {Str(<<s.chars[i]>>) : i \in DOMAIN s.chars}

\* fit's outcomes on A: the exception raised ("none" when it returns) and
\* the value assigned to self.fill_ (NoAttr: no assignment).
fit_outcomes(A) ==
    LET modes == modes_of(A)
    IN  IF Len(modes) = 0
        THEN {[raised |-> "ValueError_empty", assigned |-> NoAttr]}
        ELSE IF Len(modes) > 1 /\ tie_breaking = "error"
        THEN {[raised |-> "ValueError_tie", assigned |-> NoAttr]}
        ELSE IF tie_breaking = "random"
        THEN IF Len(modes[1].chars) = 0
             THEN {[raised |-> "IndexError", assigned |-> NoAttr]}
             ELSE {[raised |-> "none", assigned |-> c] : c \in random_choice(modes[1])}
        ELSE {[raised |-> "none", assigned |-> modes[1]]}

\* CategoricalImputer.__init__ with arguments that pass validation.
Init ==
    /\ missing_values \in MissingValues
    /\ strategy \in Strategies
    /\ fill_value \in FillValues
    /\ tie_breaking \in TieBreakingStrategies
    /\ copy \in BOOLEAN
    /\ fill_ = NoAttr
    /\ op = "none"
    /\ arg = <<>>
    /\ X = <<>>
    /\ mask = <<>>
    /\ ret = <<>>
    /\ raised = "none"
    /\ fitted = FALSE

\* A fit that resets self.fill_ before it validates the candidates.
fit_resets_first(A) ==
    /\ op = "none"
    /\ \E o \in fit_outcomes(A) :
        /\ raised' = o.raised
        /\ fill_' = o.assigned
        /\ fitted' = (fitted \/ o.raised = "none")
    /\ op' = "fit"
    /\ arg' = A
    /\ X' = A
    /\ mask' = _get_mask(A, missing_values)
    /\ ret' = <<>>
    /\ UNCHANGED config

\* CategoricalImputer.fit(A)
fit(A) ==
    /\ op = "none"
    /\ \E o \in fit_outcomes(A) :
        /\ raised' = o.raised
        /\ fill_' = IF o.raised = "none" THEN o.assigned ELSE fill_
        /\ fitted' = (fitted \/ o.raised = "none")
    /\ op' = "fit"
    /\ arg' = A
    /\ X' = A
    /\ mask' = _get_mask(A, missing_values)
    /\ ret' = <<>>
    /\ UNCHANGED config

\* A check that never raises.
check_is_fitted_skipped(attr) == TRUE

\* check_is_fitted(self, 'fill_')
check_is_fitted(attr) == attr # NoAttr

\* X[~mask] = value
assign_unmasked(A, m, value) == [i \in DOMAIN A |-> IF m[i] THEN A[i] ELSE value]

\* X[mask] = value
assign_masked(A, m, value) == [i \in DOMAIN A |-> IF m[i] THEN value ELSE A[i]]

\* transform without X.copy(): always in place.
caller_array_in_place(A, work) == work

\* The caller's array after transform worked on `work`.
caller_array(A, work) == IF copy THEN A ELSE work

\* CategoricalImputer.transform(A)
transform(A) ==
    /\ op = "none"
    /\ op' = "transform"
    /\ arg' = A
    /\ IF ~check_is_fitted(fill_)
       THEN /\ raised' = "NotFittedError"
            /\ X' = A
            /\ mask' = <<>>
            /\ ret' = <<>>
       ELSE LET m == _get_mask(A, missing_values)
                work == assign_masked(A, m, fill_)
            IN  /\ raised' = "none"
                /\ mask' = m
                /\ X' = caller_array(A, work)
                /\ ret' = work
    /\ UNCHANGED <<config, fill_, fitted>>

\* The caller is done with the outcome of the call; the call's locals are gone.
Return ==
    /\ op # "none"
    /\ op' = "none"
    /\ arg' = <<>>
    /\ X' = <<>>
    /\ mask' = <<>>
    /\ ret' = <<>>
    /\ raised' = "none"
    /\ UNCHANGED <<config, fill_, fitted>>

\* The caller makes a call when it holds no outcome of an earlier one.
Next ==
    \/ op = "none" /\ \E A \in Arrays : fit(A)
    \/ op = "none" /\ \E A \in Arrays : transform(A)
    \/ Return

Spec == Init /\ [][Next]_vars

(***************************************************************************)
(* Vocabulary of the properties.                                           *)
(***************************************************************************)

\* The sentinel is the canonical-missing marker: "NaN", None or float nan.
Canonical(value) == value = NaNStr \/ value = None \/ value = nan

\* Positions of A holding an observed value: not matched by the mask of
\* the configured sentinel, and not null (a null entry is never a value
\* the mode computation counts).
Observed(A) ==
    {i \in DOMAIN A : ~_get_mask(A, missing_values)[i] /\ ~isnull(A[i])}

\* How often v is observed in A.
Freq(A, v) == Cardinality({i \in Observed(A) : A[i] = v})

\* The observed values of A with the highest frequency.
Tied(A) ==
    LET seen == {A[i] : i \in Observed(A)}
    IN  {v \in seen : \A w \in seen : Freq(A, w) <= Freq(A, v)}

\* B holds the entries of A in some order.
Reordering(A, B) ==
    /\ Len(A) = Len(B)
    /\ \A v \in Values : value_count(A, v) = value_count(B, v)

FitDone == op = "fit"
TransformDone == op = "transform"

\* C1: with strategy most_frequent, a training array with exactly one most
\* frequent observed value m is fitted successfully and fill_ is m, under
\* every tie_breaking setting and for values of any length.
C1_UniqueModeIsFill ==
    (FitDone /\ strategy = "most_frequent" /\ Cardinality(Tied(arg)) = 1)
        => (raised = "none" /\ fill_ \in Tied(arg))

\* C2: a successful transform returns an array as long as its input, with
\* fill_ where the mask computed on that input is true and the input's own
\* entry elsewhere; the recorded mask is the mask of that input.
C2_TransformByOwnMask ==
    (TransformDone /\ raised = "none")
        => /\ Len(ret) = Len(arg)
           /\ mask = _get_mask(arg, missing_values)
           /\ \A i \in DOMAIN arg :
                ret[i] = IF _get_mask(arg, missing_values)[i] THEN fill_ ELSE arg[i]

C2_Witness ==
    /\ TransformDone /\ raised = "none"
    /\ \E i, j \in DOMAIN arg : mask[i] /\ ~mask[j] /\ ret[i] # arg[i]

\* C3: fill_ exists exactly when some fit has completed successfully, and
\* a transform called while fill_ is absent ends with the not-fitted
\* condition and returns nothing.
C3_FillIffFitted ==
    /\ (fill_ # NoAttr) <=> fitted
    /\ (TransformDone /\ fill_ = NoAttr) => (raised = "NotFittedError" /\ ret = <<>>)

C3_Witness ==
    TransformDone /\ ~fitted /\ raised = "NotFittedError" /\ Len(arg) > 0

\* C4: with strategy constant, fit succeeds on every training array under
\* every tie_breaking setting and sets fill_ to the configured fill_value.
C4_ConstantIsFillValue ==
    (FitDone /\ strategy = "constant")
        => (raised = "none" /\ fill_ = fill_value)

\* C5: with strategy most_frequent and tie_breaking random, on a tie fit
\* succeeds, fill_ is a member of the tied set, and every tied value is a
\* possible outcome.
C5_RandomPicksFromTie ==
    (FitDone /\ strategy = "most_frequent" /\ tie_breaking = "random"
        /\ Cardinality(Tied(arg)) >= 2)
        => /\ raised = "none"
           /\ fill_ \in Tied(arg)
           /\ \A v \in Tied(arg) :
                [raised |-> "none", assigned |-> v] \in fit_outcomes(arg)

\* C6: after a successful transform the caller's array is what it was
\* before the call when copy is true, and equals the returned array when
\* copy is false.
C6_CopyOrInPlace ==
    (TransformDone /\ raised = "none")
        => /\ copy => X = arg
           /\ ~copy => X = ret

C6_Witness ==
    /\ TransformDone /\ raised = "none" /\ copy
    /\ \E i \in DOMAIN arg : mask[i]
    /\ ret # arg /\ X = arg

\* C7: with strategy most_frequent, fit fails exactly when no value is
\* observed (empty-training-signal) or when two or more values tie and
\* tie_breaking is error (unresolved-tie); otherwise it succeeds.
C7_FitFailsIff ==
    (FitDone /\ strategy = "most_frequent")
        => /\ (Tied(arg) = {}) => raised = "ValueError_empty"
           /\ (Cardinality(Tied(arg)) >= 2 /\ tie_breaking = "error")
                => raised = "ValueError_tie"
           /\ (Tied(arg) # {} /\ ~(Cardinality(Tied(arg)) >= 2 /\ tie_breaking = "error"))
                => raised = "none"

\* C8: fill_ changes only in a step that is a fit returning normally; a
\* failing fit and every transform leave it as it was (absent or not).
C8_FillChangedOnlyByFit ==
    [][fill_' # fill_ => (op' = "fit" /\ raised' = "none")]_vars

C8_Witness ==
    FitDone /\ raised # "none" /\ fitted /\ fill_ # NoAttr

C10_FirstIsLeastOfTie ==
    (FitDone /\ strategy = "most_frequent" /\ tie_breaking = "first"
        /\ Cardinality(Tied(arg)) >= 2)
        => /\ raised = "none"
           /\ fill_ \in Tied(arg)
           /\ \A w \in Tied(arg) \ {fill_} : str_lt(fill_.chars, w.chars)
           /\ \A B \in Arrays :
                Reordering(arg, B)
                    => fit_outcomes(B) = {[raised |-> "none", assigned |-> fill_]}

C10_Witness ==
    /\ FitDone /\ strategy = "most_frequent" /\ tie_breaking = "first"
    /\ raised = "none"
    /\ Cardinality(Tied(arg)) >= 2
    /\ arg[1] # fill_
    /\ \E i \in DOMAIN arg : _get_mask(arg, missing_values)[i]

====
